---------------------------- MODULE Spec2Model ----------------------------
(***************************************************************************)
(* The TODO REST service of src/src/app.ts (createApp): four Fastify       *)
(* routes, each an async handler that awaits fastify.pg.connect(), awaits  *)
(* one client.query(...) inside try, releases the client in finally and    *)
(* returns the value Fastify serialises as the response.                   *)
(*                                                                         *)
(* A request is a task of the event loop.  Its position is its pc:         *)
(*   "connect" the handler awaits fastify.pg.connect()                     *)
(*   "query"   the handler holds a client and awaits client.query(stmt)    *)
(*   "resume"  the query promise has settled (q), the handler has not yet  *)
(*             been resumed                                                *)
(*   "reply"   the handler has returned or thrown; Fastify has not yet     *)
(*             sent the response                                           *)
(*   "done"    the response (status, payload) has been sent                *)
(* Between two awaits a handler runs without interruption, so each action  *)
(* below is one such run (or one step of the store / the pool).            *)
(***************************************************************************)
EXTENDS Integers, Sequences, FiniteSets, Bags, TLC

\* ------------------------------------------------------------------ bounds

\* Requests in flight (arrived, response not yet sent) at the same time.
MaxInFlight == 2

\* Connections of the pool behind fastify.pg.
PoolSize == 2

\* Rows inserted in one behaviour: the sequence stops at this id.
MaxId == 2

\* ------------------------------------------------------------------ inputs

\* JavaScript's undefined: the value of a body field that is absent.
Undefined == "undefined"

\* SQL NULL: what the driver sends for an undefined parameter.
Null == "NULL"

\* The :id path segments requests use.  Each names an id the store has not
\* assigned until that many rows have been inserted.
PathIds == {"1", "2"}

\* The store's coercion of the :id parameter (a string) to the integer it
\* compares with the id column.
StoreCoerce(seg) ==
  CASE seg = "1" -> 1
    [] seg = "2" -> 2
    [] seg = "3" -> 3
    [] OTHER -> 0

\* A parsed JSON body: the fields it has, and their values (a filler where
\* the field is absent).
Body(has, title, completed) ==
  [has |-> has, title |-> title, completed |-> completed]

NoBody == Body({}, "", FALSE)

\* POST bodies: { title }, {} (title missing), and { title, completed: true }
\* (a completed field the route does not read).
PostBodies ==
  {Body({"title"}, "Buy milk", FALSE),
   Body({}, "", FALSE),
   Body({"title", "completed"}, "Learn Bun", TRUE)}

\* PUT bodies: { title, completed }.
PutBodies ==
  {Body({"title", "completed"}, "Buy milk", TRUE),
   Body({"title", "completed"}, "Learn Bun", FALSE)}

\* A request payload as it is sent with content-type application/json: text
\* that is the JSON of a body, or text that is not JSON; no text where the
\* request has no payload.
Json(b) == [text |-> "json", body |-> b]

InvalidJson == [text |-> "invalid json", body |-> NoBody]

NoText == [text |-> "", body |-> NoBody]

PostPayloads == {Json(b) : b \in PostBodies} \cup {InvalidJson}

PutPayloads == {Json(b) : b \in PutBodies} \cup {InvalidJson}

\* What parsing a payload comes to: the body, or a failure.
Parsed(ok, body) == [ok |-> ok, body |-> body]

\* Mutant: text that is not JSON taken for the empty object.
ContentTypeParserLenient(p) == Parsed(TRUE, p.body)

\* Fastify's parser for application/json, run before the route's handler.
ContentTypeParser(p) ==
  IF p.text = "invalid json" THEN Parsed(FALSE, NoBody)
  ELSE Parsed(TRUE, p.body)

\* const { title } = request.body
BodyTitle(b) == IF "title" \in b.has THEN b.title ELSE Undefined

\* ------------------------------------------------------------------- state

VARIABLES
  todos,       \* the rows of table todos: records [id, title, completed]
  seq,         \* the last value of the id column's sequence
  checkedOut,  \* connections of the pool that are checked out
  req,         \* the bag of requests in flight and of responses just sent
  ledger,      \* history: what each id ever assigned should now hold
  trail        \* history: the exchanges of a client following the scenario

vars == <<todos, seq, checkedOut, req, ledger, trail>>

Row(id, title, completed) == [id |-> id, title |-> title, completed |-> completed]

\* ------------------------------------------------------------ the statements

NoStmt == [sql |-> "", title |-> "", completed |-> FALSE, id |-> ""]

\* client.query("SELECT * FROM todos ORDER BY id")
SelectStmt == [sql |-> "SELECT", title |-> "", completed |-> FALSE, id |-> ""]

\* Mutant: a missing title replaced by the empty string, title ?? "".
InsertStmtDefaultTitle(body) ==
  [sql |-> "INSERT",
   title |-> IF "title" \in body.has THEN body.title ELSE "",
   completed |-> FALSE, id |-> ""]

\* Mutant: the body's completed passed as $2.
InsertStmtFromBody(body) ==
  [sql |-> "INSERT", title |-> BodyTitle(body), completed |-> body.completed,
   id |-> ""]

\* client.query("INSERT INTO todos (title, completed) VALUES ($1, $2)
\* RETURNING *", [title, false])
InsertStmt(body) ==
  [sql |-> "INSERT", title |-> BodyTitle(body), completed |-> FALSE, id |-> ""]

\* Mutant: the title alone updated, completed left out of the parameters.
UpdateStmtTitleOnly(seg, body) ==
  [sql |-> "UPDATE", title |-> BodyTitle(body), completed |-> FALSE,
   id |-> seg]

\* client.query("UPDATE todos SET title = $1, completed = $2 WHERE id = $3
\* RETURNING *", [title, completed, id])
UpdateStmt(seg, body) ==
  [sql |-> "UPDATE", title |-> BodyTitle(body), completed |-> body.completed,
   id |-> seg]

\* client.query("DELETE FROM todos WHERE id = $1", [id])
DeleteStmt(seg) ==
  [sql |-> "DELETE", title |-> "", completed |-> FALSE, id |-> seg]

\* The result object of client.query: rows and rowCount.
Result(rows, rowCount) == [err |-> FALSE, rows |-> rows, rowCount |-> rowCount]

\* The query promise rejected.
Rejected == [err |-> TRUE, rows |-> << >>, rowCount |-> 0]

NoResult == [err |-> FALSE, rows |-> << >>, rowCount |-> 0]

\* The row of S with the least id.
MinRow(S) == CHOOSE x \in S : \A y \in S : x.id <= y.id

\* ORDER BY id: the rows of S as a sequence of ascending id.
RECURSIVE OrderById(_)
OrderById(S) ==
  IF S = {} THEN << >>
  ELSE LET m == MinRow(S) IN <<m>> \o OrderById(S \ {m})

\* An undefined parameter reaches the store as NULL.
Param(v) == IF v = Undefined THEN Null ELSE v

\* Mutant: ORDER BY id DESC.
RECURSIVE SelectRowsDesc(_)
SelectRowsDesc(t) ==
  IF t = {} THEN << >>
  ELSE LET m == CHOOSE x \in t : \A y \in t : x.id >= y.id
       IN <<m>> \o SelectRowsDesc(t \ {m})

\* Mutant: SELECT * FROM todos WHERE completed ORDER BY id.
SelectRowsCompleted(t) == OrderById({x \in t : x.completed})

\* SELECT * FROM todos ORDER BY id
SelectRows(t) == OrderById(t)

\* The id the sequence gives the next inserted row.
NextId(s) == s + 1

\* INSERT ... RETURNING *: the row added.
InsertedRow(s, st) == Row(NextId(s), Param(st.title), st.completed)

\* UPDATE ... WHERE id = $3: the rows that match.
Matching(t, seg) == {x \in t : x.id = StoreCoerce(seg)}

\* UPDATE ... SET title = $1, completed = $2 WHERE id = $3 RETURNING *: the
\* rows as updated.
UpdatedRows(t, st) ==
  {Row(x.id, Param(st.title), st.completed) : x \in Matching(t, st.id)}

\* Mutant: DELETE FROM todos, the WHERE clause lost.
TableAfterDeleteAll(t, s, st) ==
  CASE st.sql = "INSERT" -> t \cup {InsertedRow(s, st)}
    [] st.sql = "UPDATE" -> (t \ Matching(t, st.id)) \cup UpdatedRows(t, st)
    [] st.sql = "DELETE" -> IF Matching(t, st.id) = {} THEN t ELSE {}
    [] OTHER -> t

\* The table after the statement.
TableAfter(t, s, st) ==
  CASE st.sql = "INSERT" -> t \cup {InsertedRow(s, st)}
    [] st.sql = "UPDATE" -> (t \ Matching(t, st.id)) \cup UpdatedRows(t, st)
    [] st.sql = "DELETE" -> t \ Matching(t, st.id)
    [] OTHER -> t

\* What client.query resolves to.
ResultOf(t, s, st) ==
  CASE st.sql = "SELECT" -> Result(SelectRows(t), Cardinality(t))
    [] st.sql = "INSERT" -> Result(<<InsertedRow(s, st)>>, 1)
    [] st.sql = "UPDATE" ->
         Result(OrderById(UpdatedRows(t, st)), Cardinality(Matching(t, st.id)))
    [] st.sql = "DELETE" -> Result(<< >>, Cardinality(Matching(t, st.id)))
    [] OTHER -> NoResult

\* -------------------------------------------------------------- the handlers

\* A response body.  kind: "array" (a JSON array of rows), "object" (one row),
\* "error" (an object { error }), "empty" (the empty string), "none".
Payload(kind, rows, error) == [kind |-> kind, rows |-> rows, error |-> error]

NoPayload == Payload("none", << >>, "")

\* return rows
Array(rows) == Payload("array", rows, "")

\* return rows[0]
Object(rows) ==
  Payload("object", IF Len(rows) >= 1 THEN <<rows[1]>> ELSE << >>, "")

\* return { error: "TODO not found" }
NotFound == Payload("error", << >>, "TODO not found")

\* return ""
Empty == Payload("empty", << >>, "")

\* How a handler's run from the settled query to its end comes out: whether
\* it threw, the status given to reply.code (200 when it was not called), the
\* value returned, and the calls of client.release() made.
Outcome(threw, code, payload, releases) ==
  [threw |-> threw, code |-> code, payload |-> payload, releases |-> releases]

\* The awaited query rejected: the try block throws.
Throw == Outcome(TRUE, 200, NoPayload, 0)

Return(code, payload) == Outcome(FALSE, code, payload, 0)

\* finally { client.release(); }
Finally(out) == [out EXCEPT !.releases = @ + 1]

\* Mutant: client.release() as the last statement of the try block, not in
\* finally.
GetTodosReleaseInTry(q) ==
  IF q.err THEN Throw ELSE Finally(Return(200, Array(q.rows)))

\* fastify.get("/todos"): try { rows = query; return rows } finally release
GetTodos(q) ==
  Finally(IF q.err THEN Throw ELSE Return(200, Array(q.rows)))

\* Mutant: the query's error caught and answered as not found.
PostTodosCatch(q) ==
  Finally(IF q.err THEN Return(404, NotFound)
          ELSE Return(201, Object(q.rows)))

\* fastify.post("/todos"): reply.code(201); return rows[0]
PostTodos(q) ==
  Finally(IF q.err THEN Throw ELSE Return(201, Object(q.rows)))

\* Mutant: the not-found answer returned without releasing the client, the
\* release placed after the check instead of in finally.
PutTodoReleaseAfterCheck(q) ==
  IF q.err THEN Throw
  ELSE IF Len(q.rows) = 0 THEN Return(404, NotFound)
  ELSE Finally(Return(200, Object(q.rows)))

\* Mutant: rows[0] returned without the rows.length check.
PutTodoNoCheck(q) ==
  Finally(IF q.err THEN Throw ELSE Return(200, Object(q.rows)))

\* fastify.put("/todos/:id"): 404 when rows.length === 0, else rows[0]
PutTodo(q) ==
  Finally(IF q.err THEN Throw
          ELSE IF Len(q.rows) = 0 THEN Return(404, NotFound)
          ELSE Return(200, Object(q.rows)))

\* Mutant: the not-found answer returned without releasing the client, the
\* release placed after the check instead of in finally.
DeleteTodoReleaseAfterCheck(q) ==
  IF q.err THEN Finally(Throw)
  ELSE IF q.rowCount = 0 THEN Return(404, NotFound)
  ELSE Finally(Return(204, Empty))

\* Mutant: the test of the PUT route, rows.length, where the statement has no
\* RETURNING clause and rows is always empty.
DeleteTodoRowsLength(q) ==
  Finally(IF q.err THEN Throw
          ELSE IF Len(q.rows) = 0 THEN Return(404, NotFound)
          ELSE Return(204, Empty))

\* Mutant: the rowCount test inverted.
DeleteTodoInverted(q) ==
  Finally(IF q.err THEN Throw
          ELSE IF q.rowCount # 0 THEN Return(404, NotFound)
          ELSE Return(204, Empty))

\* Mutant: 204 whatever the rowCount.
DeleteTodoNoCheck(q) ==
  Finally(IF q.err THEN Throw ELSE Return(204, Empty))

\* fastify.delete("/todos/:id"): 404 when rowCount === 0, else 204 and ""
DeleteTodo(q) ==
  Finally(IF q.err THEN Throw
          ELSE IF q.rowCount = 0 THEN Return(404, NotFound)
          ELSE Return(204, Empty))

\* The handler of the route, resumed with the settled query.
Handler(op, q) ==
  CASE op = "GET" -> GetTodos(q)
    [] op = "POST" -> PostTodos(q)
    [] op = "PUT" -> PutTodo(q)
    [] op = "DELETE" -> DeleteTodo(q)

\* The statement the route's handler passes to client.query.
Statement(op, seg, body) ==
  CASE op = "GET" -> SelectStmt
    [] op = "POST" -> InsertStmt(body)
    [] op = "PUT" -> UpdateStmt(seg, body)
    [] op = "DELETE" -> DeleteStmt(seg)

\* Fastify's default error path: an error thrown by a handler becomes a 500
\* response; a returned value is sent with the status given to reply.code.
ServerError == Payload("error", << >>, "Internal Server Error")

ReplyStatus(threw, code) == IF threw THEN 500 ELSE code

ReplyPayload(threw, payload) == IF threw THEN ServerError ELSE payload

\* Fastify's answer to a body its parser could not parse: status 400.
BadRequest == Payload("error", << >>, "Bad Request")

\* ------------------------------------------------------------------ history

\* What the ledger holds for an id the store has assigned: the values the
\* requests gave it, whether it is still there, whether an Update or Delete
\* has hit it, and how many Create responses have carried it.
Entry(title, completed, live, touched, returned) ==
  [title |-> title, completed |-> completed, live |-> live,
   touched |-> touched, returned |-> returned]

NoLedger == [n \in {} |-> Entry("", FALSE, FALSE, FALSE, 0)]

Live(l) == {n \in DOMAIN l : l[n].live}

\* The ledger after the store has executed the statement of a request with
\* path segment seg and body b; n is the id the store gave an inserted row.
LedgerAfter(l, op, seg, b, n) ==
  LET k == StoreCoerce(seg) IN
  CASE op = "POST" ->
         l @@ (n :> Entry(Param(BodyTitle(b)), FALSE, TRUE, FALSE, 0))
    [] op = "PUT" /\ k \in Live(l) ->
         [l EXCEPT ![k] = Entry(Param(BodyTitle(b)), b.completed, TRUE, TRUE,
                                @.returned)]
    [] op = "DELETE" /\ k \in Live(l) ->
         [l EXCEPT ![k] = Entry("", FALSE, FALSE, TRUE, @.returned)]
    [] OTHER -> l

\* The rows the ledger says the table holds.
Expected(l) == {Row(n, l[n].title, l[n].completed) : n \in Live(l)}

\* The rows of the ledger whose Create has been answered and that no Update
\* or Delete has hit since: each as its Create made it.
Fresh(l) ==
  {Row(n, l[n].title, FALSE) :
     n \in {k \in DOMAIN l : l[k].returned > 0 /\ ~l[k].touched}}

\* What the statement of a request with path segment seg finds under that id:
\* a row of the table ("live"), no row and the ledger's record of a Delete
\* that removed it ("deleted"), or no row otherwise ("absent").
Hit(t, l, seg) ==
  LET k == StoreCoerce(seg) IN
  IF \E x \in t : x.id = k THEN "live"
  ELSE IF k \in DOMAIN l /\ ~l[k].live THEN "deleted"
  ELSE "absent"

\* History kept with a request: the table before and after the statement of
\* an Update or Delete, and what the ledger holds when a List reads.
Addressed(op, t) == IF op \in {"PUT", "DELETE"} THEN t ELSE {}

Listed(op, rows) == IF op = "GET" THEN rows ELSE {}

\* History kept with an Update or Delete: the routes of the Updates and
\* Deletes of the same path segment that are in flight when the store
\* executes its statement and whose own statement, executed before, found the
\* row.
Rivals(B, op, seg) ==
  IF op \in {"PUT", "DELETE"}
  THEN {x.op : x \in {y \in DOMAIN B : /\ y.op \in {"PUT", "DELETE"}
                                        /\ y.seg = seg
                                        /\ y.hit = "live"}}
  ELSE {}

\* One request and its response, as the client saw them.
Exchange(r) ==
  [op |-> r.op, seg |-> r.seg, body |-> r.body, rejected |-> r.rejected,
   status |-> r.status, sent |-> r.sent]

\* The id of the row the first exchange of log returned (0: none).
TrailId(log) ==
  IF Len(log) >= 1 /\ Len(log[1].sent.rows) = 1 THEN log[1].sent.rows[1].id
  ELSE 0

\* The scenario's requests: POST { title: "Buy milk" }, then PUT /todos/n
\* { title: "Buy milk", completed: true }, then DELETE /todos/n, then
\* GET /todos, n being the id the POST returned.  Whether the request
\* (op, seg, body) is the one that follows the exchanges of log.
Follows(log, op, seg, body) ==
  CASE Len(log) = 0 -> op = "POST" /\ body = Body({"title"}, "Buy milk", FALSE)
    [] Len(log) = 1 ->
         /\ op = "PUT"
         /\ TrailId(log) # 0
         /\ StoreCoerce(seg) = TrailId(log)
         /\ body = Body({"title", "completed"}, "Buy milk", TRUE)
    [] Len(log) = 2 -> op = "DELETE" /\ StoreCoerce(seg) = TrailId(log)
    [] Len(log) = 3 -> op = "GET"
    [] OTHER -> FALSE

\* The trail: the exchanges so far of a client that follows the scenario, one
\* request at a time, while no other request is in flight; open while its
\* latest request is in flight.
Trail(log, open) == [log |-> log, open |-> open]

\* ----------------------------------------------------------------- requests

\* A request as it arrives: its handler has run to fastify.pg.connect().
NewReq(op, seg, body) ==
  [pc |-> "connect", op |-> op, seg |-> seg, text |-> "", body |-> body,
   acquired |-> FALSE, rejected |-> FALSE, client |-> FALSE, released |-> 0,
   connects |-> 0, queries |-> 0, held |-> FALSE,
   stmt |-> NoStmt, q |-> NoResult,
   hit |-> "none", pre |-> {}, post |-> {}, snap |-> {}, fresh |-> {},
   race |-> {},
   threw |-> FALSE, code |-> 200, payload |-> NoPayload,
   status |-> 0, sent |-> NoPayload]

\* A response stays in the bag until the server's next step: the requests in
\* flight, which is what that step finds.
InFlight == [r \in {x \in DOMAIN req : x.pc # "done"} |-> req[r]]

\* The bag B with one copy of r replaced by one copy of r2.
Replace(B, r, r2) == (B (-) SetToBag({r})) (+) SetToBag({r2})

\* The inserts that requests in flight have yet to execute.
PendingInserts ==
  BagCardinality([r \in {x \in DOMAIN InFlight :
                           x.op = "POST" /\ x.pc \in {"connect", "query"}}
                    |-> InFlight[r]])

Init ==
  /\ todos = {}
  /\ seq = 0
  /\ checkedOut = 0
  /\ req = EmptyBag
  /\ ledger = NoLedger
  /\ trail = Trail(<< >>, FALSE)

\* Whether the bounds admit one more request of this route.
Admits(op) ==
  /\ BagCardinality(InFlight) < MaxInFlight
  /\ op = "POST" => seq + PendingInserts < MaxId

\* A request arrives and its handler runs to its first await,
\* fastify.pg.connect().  A request that arrives while nothing is in flight
\* and follows the trail's exchanges is the scenario's next step; one that
\* starts the scenario starts a new trail; any other request ends the trail.
Arrive(op, seg, text, body) ==
  /\ req' = InFlight (+) SetToBag({[NewReq(op, seg, body) EXCEPT !.text = text]})
  /\ trail' =
       IF InFlight = EmptyBag /\ Follows(trail.log, op, seg, body)
       THEN Trail(trail.log, TRUE)
       ELSE IF InFlight = EmptyBag /\ Follows(<< >>, op, seg, body)
       THEN Trail(<< >>, TRUE)
       ELSE Trail(<< >>, FALSE)
  /\ UNCHANGED <<todos, seq, checkedOut, ledger>>

\* A request whose payload Fastify's parser refuses: the route's handler is
\* not called, the response is 400.  It ends the trail, as any request does
\* that is not the scenario's.
Refuse(op, seg, text) ==
  /\ req' = InFlight (+)
             SetToBag({[NewReq(op, seg, NoBody) EXCEPT
                          !.pc = "reply", !.text = text, !.code = 400,
                          !.payload = BadRequest]})
  /\ trail' = Trail(<< >>, FALSE)
  /\ UNCHANGED <<todos, seq, checkedOut, ledger>>

\* Fastify receives a request of a route: it parses the payload, then calls
\* the route's handler with the body.
Receive(op, seg, p) ==
  LET parsed == ContentTypeParser(p) IN
  IF parsed.ok THEN Arrive(op, seg, p.text, parsed.body)
  ELSE Refuse(op, seg, p.text)

\* GET /todos
GetTodosRoute ==
  /\ Admits("GET")
  /\ Receive("GET", "", NoText)

\* POST /todos
PostTodosRoute ==
  /\ Admits("POST")
  /\ \E p \in PostPayloads : Receive("POST", "", p)

\* PUT /todos/:id
PutTodoRoute ==
  /\ Admits("PUT")
  /\ \E seg \in PathIds, p \in PutPayloads : Receive("PUT", seg, p)

\* DELETE /todos/:id
DeleteTodoRoute ==
  /\ Admits("DELETE")
  /\ \E seg \in PathIds : Receive("DELETE", seg, NoText)

\* fastify.pg.connect() resolves with a client of the pool; the handler goes
\* on to client.query(...) and awaits it.
ConnectResolve(r) ==
  /\ r.pc = "connect"
  /\ checkedOut < PoolSize
  /\ checkedOut' = checkedOut + 1
  /\ req' = Replace(InFlight, r,
                    [r EXCEPT !.pc = "query", !.client = TRUE,
                              !.acquired = TRUE,
                              !.connects = @ + 1, !.queries = @ + 1,
                              !.stmt = Statement(r.op, r.seg, r.body)])
  /\ UNCHANGED <<todos, seq, ledger, trail>>

\* fastify.pg.connect() rejects: the handler throws before its try block.
ConnectReject(r) ==
  /\ r.pc = "connect"
  /\ req' = Replace(InFlight, r,
                    [r EXCEPT !.pc = "reply", !.rejected = TRUE,
                              !.threw = TRUE])
  /\ UNCHANGED <<todos, seq, checkedOut, ledger, trail>>

\* The store executes the request's statement and the query promise resolves.
Execute(r) ==
  /\ r.pc = "query"
  /\ todos' = TableAfter(todos, seq, r.stmt)
  /\ seq' = IF r.stmt.sql = "INSERT" THEN NextId(seq) ELSE seq
  /\ ledger' = LedgerAfter(ledger, r.op, r.seg, r.body, NextId(seq))
  /\ req' = Replace(InFlight, r,
                    [r EXCEPT !.pc = "resume", !.held = r.client,
                              !.q = ResultOf(todos, seq, r.stmt),
                              !.hit = Hit(todos, ledger, r.seg),
                              !.pre = Addressed(r.op, todos),
                              !.post = Addressed(r.op, todos'),
                              !.snap = Listed(r.op, Expected(ledger)),
                              !.fresh = Listed(r.op, Fresh(ledger)),
                              !.race = Rivals(InFlight, r.op, r.seg)])
  /\ UNCHANGED <<checkedOut, trail>>

\* The statement fails and the query promise rejects; the table is as it was.
QueryReject(r) ==
  /\ r.pc = "query"
  /\ req' = Replace(InFlight, r,
                    [r EXCEPT !.pc = "resume", !.rejected = TRUE,
                              !.held = r.client, !.q = Rejected])
  /\ UNCHANGED <<todos, seq, checkedOut, ledger, trail>>

\* The handler is resumed with the settled query and runs to its end.
Resume(r) ==
  /\ r.pc = "resume"
  /\ LET out == Handler(r.op, r.q) IN
     /\ req' = Replace(InFlight, r,
                       [r EXCEPT !.pc = "reply", !.threw = out.threw,
                                 !.code = out.code, !.payload = out.payload,
                                 !.released = @ + out.releases,
                                 !.client = (out.releases = 0)])
     /\ checkedOut' = IF out.releases > 0 THEN checkedOut - 1 ELSE checkedOut
  /\ UNCHANGED <<todos, seq, ledger, trail>>

\* Fastify sends the response.
Send(r) ==
  /\ r.pc = "reply"
  /\ LET status == ReplyStatus(r.threw, r.code)
         sent == ReplyPayload(r.threw, r.payload)
         done == [r EXCEPT !.pc = "done", !.status = status, !.sent = sent]
     IN
     /\ req' = Replace(InFlight, r, done)
     /\ trail' = IF trail.open
                 THEN Trail(Append(trail.log, Exchange(done)), FALSE)
                 ELSE trail
     /\ ledger' =
          IF r.op = "POST" /\ status = 201 /\ Len(sent.rows) = 1
               /\ sent.rows[1].id \in DOMAIN ledger
          THEN [ledger EXCEPT ![sent.rows[1].id].returned = @ + 1]
          ELSE ledger
  /\ UNCHANGED <<todos, seq, checkedOut>>

Next ==
  \/ GetTodosRoute
  \/ PostTodosRoute
  \/ PutTodoRoute
  \/ DeleteTodoRoute
  \/ \E r \in DOMAIN InFlight : ConnectResolve(r)
  \/ \E r \in DOMAIN InFlight : ConnectReject(r)
  \/ \E r \in DOMAIN InFlight : Execute(r)
  \/ \E r \in DOMAIN InFlight : QueryReject(r)
  \/ \E r \in DOMAIN InFlight : Resume(r)
  \/ \E r \in DOMAIN InFlight : Send(r)

Spec == Init /\ [][Next]_vars

\* ------------------------------------------------------- the fair server
\*
\* The same server with one request more in flight than the pool has
\* connections, so that a request has to wait for one, and with the fairness
\* of what runs it: the pool gives a released connection to a request that
\* waits for one, and no waiting request is passed over for ever; the store
\* settles every statement it is sent; the event loop resumes every handler
\* whose promise has settled and sends every response.  Nothing makes a
\* request arrive, and nothing makes an acquisition or a statement fail.
\*
\* A bag cannot tell two equal requests apart, so here a request arrives only
\* while no request of the same route, path and payload is in flight: what is
\* said of a request's key is then said of one request.

\* What tells the requests in flight apart.
Key(r) == [op |-> r.op, seg |-> r.seg, text |-> r.text, body |-> r.body]

\* The requests sent to the fair server: a List, a Create and a Delete of
\* id 1, whose handlers end in each of the ways a handler ends (a value
\* returned with or without reply.code, the not-found answer, a throw).
LiveRequests ==
  {[op |-> "GET", seg |-> "", p |-> NoText],
   [op |-> "POST", seg |-> "",
    p |-> Json(Body({"title", "completed"}, "Learn Bun", TRUE))],
   [op |-> "DELETE", seg |-> "1", p |-> NoText]}

LiveKeys ==
  {[op |-> x.op, seg |-> x.seg, text |-> x.p.text, body |-> x.p.body] :
     x \in LiveRequests}

\* A request arrives at the fair server.
LiveReceive ==
  \E x \in LiveRequests :
    /\ BagCardinality(InFlight) <= PoolSize
    /\ x.op = "POST" => seq + PendingInserts < MaxId
    /\ \A r \in DOMAIN InFlight :
         Key(r) # [op |-> x.op, seg |-> x.seg, text |-> x.p.text,
                   body |-> x.p.body]
    /\ Receive(x.op, x.seg, x.p)

\* The steps of the request of key k.
ConnectResolveOf(k) ==
  \E r \in DOMAIN InFlight : Key(r) = k /\ ConnectResolve(r)

SettleOf(k) ==
  \E r \in DOMAIN InFlight : Key(r) = k /\ (Execute(r) \/ QueryReject(r))

ResumeOf(k) == \E r \in DOMAIN InFlight : Key(r) = k /\ Resume(r)

SendOf(k) == \E r \in DOMAIN InFlight : Key(r) = k /\ Send(r)

LiveNext ==
  \/ LiveReceive
  \/ \E r \in DOMAIN InFlight : ConnectResolve(r)
  \/ \E r \in DOMAIN InFlight : ConnectReject(r)
  \/ \E r \in DOMAIN InFlight : Execute(r)
  \/ \E r \in DOMAIN InFlight : QueryReject(r)
  \/ \E r \in DOMAIN InFlight : Resume(r)
  \/ \E r \in DOMAIN InFlight : Send(r)

Fairness ==
  \A k \in LiveKeys :
    /\ SF_vars(ConnectResolveOf(k))
    /\ WF_vars(SettleOf(k))
    /\ WF_vars(ResumeOf(k))
    /\ WF_vars(SendOf(k))

LiveSpec == Init /\ [][LiveNext]_vars /\ Fairness

\* ------------------------------------------------------------------ claims

\* The requests whose response has just been sent.
Answered == {r \in DOMAIN req : r.pc = "done"}

\* The requests whose statement the store has executed.
Executed == {r \in DOMAIN req : r.hit # "none"}

\* The ids of a sequence of rows do not decrease.
Ascending(rows) ==
  \A i \in 1..Len(rows) : \A j \in 1..Len(rows) :
    i <= j => rows[i].id <= rows[j].id

\* The rows of a sequence, as a set.
RowSet(rows) == {rows[i] : i \in 1..Len(rows)}

\* The places of a sequence of rows that hold id n.
Places(rows, n) == {i \in 1..Len(rows) : rows[i].id = n}

\* C1.  Every request that has acquired a connection invokes release on it
\* exactly once, whether its statement succeeds, matches no row (the 404
\* path) or throws: no release before the query has settled, one release once
\* the handler has ended, never two; a request that acquired none releases
\* none.
ReleaseExactlyOnce ==
  \A r \in DOMAIN req :
    /\ r.released <= 1
    /\ r.pc \in {"connect", "query", "resume"} => r.released = 0
    /\ r.acquired /\ r.pc \in {"reply", "done"} => r.released = 1
    /\ ~r.acquired => r.released = 0
    /\ r.client <=> (r.acquired /\ r.released = 0)

\* A request whose statement threw has been answered, its connection released
\* once.
ReleasedAfterThrow ==
  \E r \in Answered :
    r.acquired /\ r.q.err /\ r.released = 1 /\ r.status = 500

\* C2.  Every Todo a Create returns has completed = false, whatever completed
\* the request body supplied, is the row inserted for its own request's title,
\* and has an id the store assigned that no other Create response carries,
\* also when Creates are in flight together and are answered in any order.
CreateDistinctIds ==
  /\ \A n \in DOMAIN ledger : ledger[n].returned <= 1
  /\ \A r \in Answered :
       r.op = "POST" /\ r.status = 201 =>
         /\ r.sent.kind = "object"
         /\ Len(r.sent.rows) = 1
         /\ r.sent.rows[1].completed = FALSE
         /\ "title" \in r.body.has => r.sent.rows[1].title = r.body.title
         /\ r.sent.rows[1].id \in DOMAIN ledger
         /\ ledger[r.sent.rows[1].id].returned = 1

\* Two Creates in flight together, answered in the reverse of the order their
\* rows were inserted: the later row's Create, whose body supplied
\* completed: true, is answered while the earlier row's Create still waits to
\* be.
CreatesAnsweredOutOfOrder ==
  \E r \in Answered : \E p \in DOMAIN req :
    /\ r.op = "POST" /\ r.status = 201 /\ "completed" \in r.body.has
    /\ p.op = "POST" /\ p.pc = "reply" /\ ~p.threw
    /\ Len(r.sent.rows) = 1 /\ Len(p.payload.rows) = 1
    /\ p.payload.rows[1].id < r.sent.rows[1].id

\* C3.  A List that does not fail is answered 200 with a JSON array of rows in
\* non-decreasing id order, each row once, and the rows are exactly those
\* created and not deleted, with the title and completed last given to them,
\* as of the moment its read executed; when there are none, the array is
\* empty.
ListReflectsStore ==
  \A r \in Answered :
    r.op = "GET" /\ ~r.rejected =>
      /\ r.status = 200
      /\ r.sent.kind = "array"
      /\ Ascending(r.sent.rows)
      /\ RowSet(r.sent.rows) = r.snap
      /\ Len(r.sent.rows) = Cardinality(r.snap)

\* A List answered with two rows, one of them updated, after the table has
\* changed since its read.
ListOfTwoRowsAfterChange ==
  \E r \in Answered :
    /\ r.op = "GET" /\ r.status = 200 /\ Len(r.sent.rows) = 2
    /\ \E i \in 1..2 : r.sent.rows[i].completed
    /\ todos # RowSet(r.sent.rows)

\* C4.  An Update whose statement the store executes (a failing statement is
\* C7's case) and whose id the table holds no row for leaves the table as it
\* was: no row added, changed or removed; and it is answered 404 with
\* { error: "TODO not found" }.
UpdateAbsentId ==
  \A r \in Executed :
    r.op = "PUT" /\ r.hit # "live" =>
      /\ r.post = r.pre
      /\ r.pc = "done" => r.status = 404 /\ r.sent = NotFound

\* An Update of an id without a row, answered 404, the table holding a row.
UpdateAbsentIdAnswered ==
  \E r \in Answered :
    r.op = "PUT" /\ r.hit = "absent" /\ r.status = 404 /\ r.pre # {}

\* C5.  A Delete whose statement the store executes (a failing statement is
\* C7's case): addressed to an id the table holds no row for, it is answered
\* 404 with { error: "TODO not found" }; addressed to an id the table holds a
\* row for, it removes that row and no other, and is answered 204 with an
\* empty body.
DeleteAbsentOrExisting ==
  \A r \in Executed :
    r.op = "DELETE" =>
      LET k == StoreCoerce(r.seg) IN
      /\ r.hit # "live" /\ r.pc = "done" =>
           r.status = 404 /\ r.sent = NotFound
      /\ r.hit = "live" =>
           /\ r.post = {x \in r.pre : x.id # k}
           /\ Cardinality(r.post) = Cardinality(r.pre) - 1
           /\ r.pc = "done" => r.status = 204 /\ r.sent = Empty

\* A Delete that removed a row and left another, answered 204.
DeleteExistingAnswered ==
  \E r \in Answered :
    r.op = "DELETE" /\ r.hit = "live" /\ r.status = 204 /\ r.post # {}

\* C6.  An Update whose statement the store executes (a failing statement is
\* C7's case) and whose id the table holds a row for replaces that row's title
\* and completed by the request's, keeps its id, leaves every other row as it
\* was, and is answered 200 with the updated row.
UpdateExisting ==
  \A r \in Executed :
    r.op = "PUT" /\ r.hit = "live" =>
      LET k == StoreCoerce(r.seg)
          row == Row(k, r.body.title, r.body.completed)
      IN
      /\ {x \in r.post : x.id = k} = {row}
      /\ {x \in r.post : x.id # k} = {x \in r.pre : x.id # k}
      /\ r.pc = "done" => r.status = 200 /\ r.sent = Object(<<row>>)

\* An Update that set completed to true on one of two rows and changed its
\* title, answered 200.
UpdateExistingAnswered ==
  \E r \in Answered :
    /\ r.op = "PUT" /\ r.hit = "live" /\ r.status = 200
    /\ r.body.completed
    /\ Cardinality(r.post) = 2
    /\ \A x \in r.pre : x.title # r.body.title

\* C7.  A request whose connection could not be acquired or whose statement
\* failed ends with its handler throwing, and is answered 500: never 200, 201,
\* 204 or 404.
FailureIs500 ==
  \A r \in DOMAIN req :
    r.rejected =>
      /\ r.pc \in {"reply", "done"} => r.threw
      /\ r.pc = "done" => r.status = 500 /\ r.sent = ServerError

\* A Create whose insert failed, answered 500.
InsertFailureAnswered ==
  \E r \in Answered :
    r.op = "POST" /\ r.acquired /\ r.rejected /\ r.status = 500

\* C8.  Once a Create has been answered with a Todo of id n, a List whose read
\* executes before any Update or Delete has hit n is answered with a list that
\* holds id n exactly once, in the row the Create returned: its title and
\* completed = false.
CreateThenList ==
  \A r \in Answered :
    r.op = "GET" /\ ~r.rejected =>
      \A x \in r.fresh :
        /\ Cardinality(Places(r.sent.rows, x.id)) = 1
        /\ \A i \in Places(r.sent.rows, x.id) : r.sent.rows[i] = x

\* A List answered with two rows, one of them an answered Create's, untouched
\* since.
ListHoldsCreated ==
  \E r \in Answered :
    /\ r.op = "GET" /\ r.status = 200 /\ Len(r.sent.rows) = 2
    /\ \E x \in r.fresh : x.title = "Buy milk"

\* C9.  A Delete whose statement the store executes (a failing statement is
\* C7's case) and whose id is one an earlier Delete removed the row of, however
\* often it is repeated, leaves the table as it was and is answered 404 with
\* { error: "TODO not found" }: not 204, not 500.
DeleteDeletedId ==
  \A r \in Executed :
    r.op = "DELETE" /\ r.hit = "deleted" =>
      /\ r.post = r.pre
      /\ r.pc = "done" => r.status = 404 /\ r.sent = NotFound

\* A Delete of an id already deleted, answered 404, the table holding a row.
DeleteRepeatedAnswered ==
  \E r \in Answered :
    r.op = "DELETE" /\ r.hit = "deleted" /\ r.status = 404 /\ r.pre # {}

\* Whether none of the first k exchanges failed.
NoFailure(log, k) == \A i \in 1..k : ~log[i].rejected

\* C10.  The scenario, its requests sent one after the other with no other
\* request in between and none failing: POST { title: "Buy milk" } is answered
\* 201 with { id: n, title: "Buy milk", completed: false }; then PUT /todos/n
\* { title: "Buy milk", completed: true } is answered 200 with
\* { id: n, title: "Buy milk", completed: true }; then DELETE /todos/n is
\* answered 204 with an empty body; then GET /todos is answered with a list
\* that does not hold id n.
Scenario ==
  LET log == trail.log
      n == TrailId(log)
  IN
  /\ Len(log) >= 1 /\ NoFailure(log, 1) =>
       /\ log[1].status = 201
       /\ n > 0
       /\ log[1].sent = Object(<<Row(n, "Buy milk", FALSE)>>)
  /\ Len(log) >= 2 /\ NoFailure(log, 2) =>
       /\ log[2].status = 200
       /\ log[2].sent = Object(<<Row(n, "Buy milk", TRUE)>>)
  /\ Len(log) >= 3 /\ NoFailure(log, 3) =>
       /\ log[3].status = 204
       /\ log[3].sent = Empty
  /\ Len(log) >= 4 /\ NoFailure(log, 4) =>
       /\ log[4].status = 200
       /\ log[4].sent.kind = "array"
       /\ Places(log[4].sent.rows, n) = {}

\* The scenario run to its end, none of its requests failing, the final list
\* holding another row.
ScenarioCompleted ==
  /\ Len(trail.log) = 4
  /\ NoFailure(trail.log, 4)
  /\ trail.log[1].op = "POST" /\ trail.log[2].op = "PUT"
  /\ trail.log[3].op = "DELETE" /\ trail.log[4].op = "GET"
  /\ StoreCoerce(trail.log[2].seg) = TrailId(trail.log)
  /\ StoreCoerce(trail.log[3].seg) = TrailId(trail.log)
  /\ Len(trail.log[4].sent.rows) = 1

\* The requests whose payload is not JSON.
Malformed == {r \in DOMAIN req : r.text = "invalid json"}

\* C11.  A request whose payload cannot be parsed as JSON, the declared
\* content type, is answered 400 without its handler running: it acquires no
\* connection, releases none, has no statement and no query result, and the
\* store executes nothing for it.
MalformedRejected ==
  \A r \in Malformed :
    /\ r.pc \in {"reply", "done"}
    /\ ~r.acquired /\ ~r.client /\ r.released = 0
    /\ r.stmt = NoStmt /\ r.q = NoResult
    /\ r.hit = "none" /\ r.pre = {} /\ r.post = {}
    /\ ~r.threw
    /\ r.pc = "done" => r.status = 400 /\ r.sent = BadRequest

\* A Create whose payload is not JSON, answered 400 while the table holds a
\* row and another request holds a connection.
MalformedAnswered ==
  \E r \in Answered :
    /\ r \in Malformed /\ r.op = "POST" /\ r.status = 400
    /\ todos # {} /\ checkedOut > 0

\* The requests whose handler has held a connection: the store has settled
\* their statement, or is yet to.
Handled == {r \in DOMAIN req : r.pc \in {"query", "resume"} \/ r.held}

\* C12 as stated: every request acquires exactly one connection, executes at
\* most one statement and only while it holds that connection, and its
\* response, success, 404 or 500, is sent only after that connection has been
\* released.
EveryRequestAcquires ==
  \A r \in DOMAIN req :
    /\ r.queries <= 1
    /\ r.hit # "none" => r.held
    /\ r.pc = "done" /\ r.status \in {200, 201, 204, 404, 500} =>
         r.connects = 1 /\ r.released = 1 /\ ~r.client

\* C12, amended.  Every request acquires at most one connection, and exactly
\* one unless the acquisition itself fails (answered 500) or its payload is
\* refused before the handler (answered 400): those acquire none and execute
\* no statement.  A request that has acquired issues one statement, and the
\* store settles that statement while the request holds the connection; it
\* releases only once the statement has settled; and its response, whether
\* 200, 201, 204, 404 or 500, is sent when it holds no connection any more,
\* the one it acquired released once.
AcquireExecuteReleaseRespond ==
  \A r \in DOMAIN req :
    /\ r.connects <= 1 /\ r.queries = r.connects
    /\ r.connects = 0 =>
         r.pc = "connect" \/ r \in Malformed \/ (r.rejected /\ r.threw)
    /\ r.pc = "connect" => r.connects = 0
    /\ r.pc \in {"query", "resume"} =>
         r.connects = 1 /\ r.client /\ r.released = 0
    /\ r.pc = "query" => ~r.held /\ r.hit = "none"
    /\ r.hit # "none" => r.held
    /\ r.held <=> (r.connects = 1 /\ r.pc \in {"resume", "reply", "done"})
    /\ r.pc \in {"reply", "done"} => ~r.client /\ r.released = r.connects
    /\ r.pc = "done" => r.status \in {200, 201, 204, 400, 404, 500}
    /\ r.pc = "done" /\ r.status \in {200, 201, 204, 404} =>
         r.connects = 1 /\ r.hit # "none"

\* An Update of an id without a row answered 404, its connection released,
\* while another request holds a connection and awaits its statement.
UpdateAnsweredAfterRelease ==
  \E r \in Answered : \E p \in DOMAIN InFlight :
    /\ r.op = "PUT" /\ r.status = 404 /\ r.connects = 1 /\ r.released = 1
    /\ p.pc = "query" /\ p.client

\* The Creates whose body has no title and reached the handler.
Untitled ==
  {r \in DOMAIN req : r.op = "POST" /\ r \notin Malformed
                        /\ "title" \notin r.body.has}

\* C13.  A Create whose body has no title is not turned away by its handler.
\* It goes on to acquire a connection; having acquired, it issues the insert
\* with the title undefined, as the body gave it, and completed = false; and
\* its response is the store's outcome of that insert: 201 with the row the
\* store returned when the store took it, 500 when the store (or the
\* acquisition) failed, never 400 or 404.
CreateForwardsMissingTitle ==
  \A r \in Untitled :
    /\ r.connects = 1 =>
         r.stmt = [sql |-> "INSERT", title |-> Undefined, completed |-> FALSE,
                   id |-> ""]
    /\ r.pc \in {"reply", "done"} =>
         r.rejected \/ (r.connects = 1 /\ r.hit # "none")
    /\ r.pc = "done" /\ r.rejected => r.status = 500
    /\ r.pc = "done" /\ ~r.rejected =>
         /\ r.status = 201
         /\ r.sent = Object(r.q.rows)
         /\ Len(r.q.rows) = 1
         /\ r.q.rows[1].title = Null /\ r.q.rows[1].completed = FALSE

\* A Create without title answered 201 with the row the store made of it,
\* and that row in the table.
UntitledCreated ==
  \E r \in Answered :
    /\ r \in Untitled /\ r.status = 201
    /\ Len(r.sent.rows) = 1 /\ r.sent.rows[1].title = Null
    /\ r.sent.rows[1] \in todos

\* The request of key k waits for fastify.pg.connect().
WaitsToAcquire(k) ==
  \E r \in DOMAIN InFlight : Key(r) = k /\ r.pc = "connect"

\* The request of key k has acquired a connection.
HasAcquired(k) == \E r \in DOMAIN req : Key(r) = k /\ r.connects = 1

\* The acquisition of the request of key k has failed.
AcquisitionFailed(k) ==
  \E r \in DOMAIN req : Key(r) = k /\ r.connects = 0 /\ r.rejected

IsInFlight(k) == \E r \in DOMAIN InFlight : Key(r) = k

IsAnswered(k) == \E r \in Answered : Key(r) = k

\* No connection is checked out while no request is in flight, and never
\* more connections than the requests in flight hold.
NoLeak ==
  /\ checkedOut =
       BagCardinality([r \in {x \in DOMAIN InFlight : x.client}
                         |-> InFlight[r]])
  /\ InFlight = EmptyBag => checkedOut = 0

\* C14 as stated: with more requests in flight than the pool has connections
\* and fair scheduling, every request that waits to acquire eventually
\* acquires, every request is eventually answered, and no connection is
\* checked out while no request is in flight.
WaitingAcquires ==
  /\ \A k \in LiveKeys : WaitsToAcquire(k) ~> HasAcquired(k)
  /\ \A k \in LiveKeys : IsInFlight(k) ~> IsAnswered(k)
  /\ []NoLeak

\* C14, amended.  No request holds a connection while it waits for one, so
\* with more requests in flight than the pool has connections and fair
\* scheduling, every request that waits to acquire eventually acquires or
\* has its acquisition fail; every request is eventually answered; and no
\* connection is checked out while no request is in flight.
WaitingAcquiresOrFails ==
  /\ \A k \in LiveKeys :
       WaitsToAcquire(k) ~> (HasAcquired(k) \/ AcquisitionFailed(k))
  /\ \A k \in LiveKeys : IsInFlight(k) ~> IsAnswered(k)
  /\ [](\A r \in DOMAIN req : r.pc = "connect" => ~r.client)
  /\ []NoLeak

\* A request waits to acquire while the pool's connections are all checked
\* out, held by other requests.
WaitsForBusyPool ==
  /\ checkedOut = PoolSize
  /\ \E r \in DOMAIN InFlight : r.pc = "connect"

\* Whether a Delete among the rivals removed the row.
RivalRemoved(race) == "DELETE" \in race

\* The Updates and Deletes of an existing id that raced: the store executed
\* another's statement for the same id while both were in flight, theirs
\* after (race) or before it.
Raced ==
  {r \in Executed :
     /\ r.op \in {"PUT", "DELETE"}
     /\ \/ r.race # {}
        \/ r.hit = "live" /\ \E p \in DOMAIN req :
                                p.seg = r.seg /\ r.op \in p.race}

\* C15.  Updates and Deletes of one id in flight together, none failing, come
\* out as in the order the store executed their statements.  Of two Deletes
\* of an existing id at most one removes the row, the first, and is answered
\* 204; the other finds no row, leaves the table as it was and is answered
\* 404.  An Update the store executes before the Delete is answered 200 with
\* the row and the Delete 204; an Update the store executes after the Delete
\* finds no row and is answered 404, never 200.
RaceIsSerial ==
  /\ \A r \in DOMAIN req :
       r.op = "DELETE" /\ r.hit = "live" =>
         /\ req[r] = 1
         /\ \A p \in DOMAIN req :
              p.op = "DELETE" /\ p.seg = r.seg /\ p.hit = "live" => p = r
  /\ \A r \in Raced :
       LET k == StoreCoerce(r.seg) IN
       /\ RivalRemoved(r.race) =>
            r.hit = "deleted" /\ r.post = r.pre
       /\ r.op = "DELETE" /\ r.hit = "live" =>
            r.post = {x \in r.pre : x.id # k} /\ r.post # r.pre
       /\ r.pc = "done" /\ ~r.rejected =>
            CASE r.op = "DELETE" /\ r.hit = "live" ->
                   r.status = 204 /\ r.sent = Empty
              [] r.op = "PUT" /\ r.hit = "live" ->
                   /\ r.status = 200
                   /\ r.sent = Object(<<Row(k, r.body.title, r.body.completed)>>)
              [] OTHER -> r.status = 404 /\ r.sent = NotFound

\* Two Deletes of one existing id, both holding a connection at once: the
\* second to be executed is answered 404 before the first, which removed the
\* row and was still suspended on its query then, is answered at all.
DeleteRaceLost ==
  \E r \in Answered : \E p \in DOMAIN InFlight :
    /\ r.op = "DELETE" /\ r.status = 404
    /\ RivalRemoved(r.race)
    /\ p.op = "DELETE" /\ p.seg = r.seg /\ p.hit = "live" /\ p.pc = "resume"

=============================================================================
